---- MODULE Spec2Model ----
(***************************************************************************)
(* Model of website.py, the Streamlit air-quality dashboard.               *)
(*                                                                         *)
(* The script is re-executed top to bottom on every user interaction.      *)
(* Three specifications are given:                                         *)
(*   Spec      one script run after another, statement by statement, as    *)
(*             the interpreter executes them (lines 38-107);               *)
(*   SpecTail  the statements of lines 122-179, applied to every state     *)
(*             that lines 38-106 can produce;                              *)
(*   SpecTop   DataFrame.nlargest of line 106 applied to views longer      *)
(*             than ten rows.                                              *)
(*                                                                         *)
(* A DataFrame is a record [columns, rows]: columns is the set of header   *)
(* labels, rows the sequence of rows.  A row maps every column name to a   *)
(* cell; a text cell is a string with "" for a missing value, a numeric    *)
(* cell is an integer with NaN for a missing value.                        *)
(***************************************************************************)
EXTENDS Integers, Sequences, FiniteSets, TLC

\* ------------------------------------------------------------------ bounds
MaxRows        == 3    \* rows of an input file with an intact header
MaxRowsDamaged == 1    \* rows of an input file with a damaged header
MaxParses      == 2    \* the parse counter saturates here
MaxViewLen     == 11   \* longest view handed to nlargest in SpecTop

\* --------------------------------------------------------- tables of the code
NaN == -1

Paths == {"air_quality_index.csv"}

required_cols ==
  <<"AQI Value", "CO AQI Value", "Ozone AQI Value", "NO2 AQI Value", "PM2.5 AQI Value">>

pollutant_dict ==
  [label \in {"Overall AQI", "Carbon Monoxide", "Ozone", "Nitrogen Dioxide", "PM2.5"} |->
     CASE label = "Overall AQI"      -> "AQI Value"
       [] label = "Carbon Monoxide"  -> "CO AQI Value"
       [] label = "Ozone"            -> "Ozone AQI Value"
       [] label = "Nitrogen Dioxide" -> "NO2 AQI Value"
       [] OTHER                      -> "PM2.5 AQI Value"]

category_map ==
  [cat \in {"Good", "Moderate", "Unhealthy for Sensitive Groups",
            "Unhealthy", "Very Unhealthy", "Hazardous"} |->
     CASE cat = "Good"                           -> 1
       [] cat = "Moderate"                       -> 2
       [] cat = "Unhealthy for Sensitive Groups" -> 3
       [] cat = "Unhealthy"                      -> 4
       [] cat = "Very Unhealthy"                 -> 5
       [] OTHER                                  -> 6]

TopN == 10

\* Columns read somewhere in the script, in file order.
ColOrder ==
  <<"City", "Country", "lat", "lng", "AQI Value", "CO AQI Value",
    "Ozone AQI Value", "NO2 AQI Value", "PM2.5 AQI Value", "AQI Category">>

ColSet == {ColOrder[i] : i \in 1..Len(ColOrder)}

TextCols == {"City", "Country", "AQI Category"}

Range(s) == {s[i] : i \in 1..Len(s)}

\* ------------------------------------------------------------ input files
\* A header label: the column name, possibly with surrounding blanks.
Hdr(c)    == [name |-> c, pad |-> FALSE]
Padded(c) == [name |-> c, pad |-> TRUE]

MkRow(city, country, lat, aqi, sub, cat) ==
  [c \in ColSet |->
     CASE c = "City"         -> city
       [] c = "Country"      -> country
       [] c = "lat"          -> lat
       [] c = "lng"          -> 7
       [] c = "AQI Value"    -> aqi
       [] c = "AQI Category" -> cat
       [] OTHER              -> sub]

SampleRows ==
  { MkRow("Paris", "France", 48, 2, 1, "Moderate"),
    MkRow("Lyon",  "France", 45, 1, 1, "Good"),
    MkRow("Rio",   "Brazil", 22, 3, 2, "Moderate"),
    MkRow("Rio",   "Brazil", NaN, 2, 2, "Good"),
    MkRow("Lyon",  "Brazil", 45, 2, NaN, "") }

SeqsUpTo(S, n) == UNION {[1..k -> S] : k \in 0..n}

FullHeader == {Hdr(c) : c \in ColSet}

DamagedHeaders ==
  {FullHeader \ {Hdr(c)} : c \in ColSet} \cup
  {(FullHeader \ {Hdr(c)}) \cup {Padded(c)} : c \in ColSet}

Unreadable == [readable |-> FALSE, header |-> {}, rows |-> <<>>]

Files ==
  {Unreadable} \cup
  {[readable |-> TRUE, header |-> FullHeader, rows |-> s] : s \in SeqsUpTo(SampleRows, MaxRows)} \cup
  {[readable |-> TRUE, header |-> h, rows |-> s] :
      h \in DamagedHeaders, s \in SeqsUpTo(SampleRows, MaxRowsDamaged)}

\* ------------------------------------------------------- pandas operations
EmptyDataFrame == [columns |-> {}, rows |-> <<>>]

HasCol(df, c) == Hdr(c) \in df.columns

\* df[mask]: the rows whose mask entry is true, in order.
RECURSIVE BoolIndexUpTo(_, _, _)
BoolIndexUpTo(rows, mask, k) ==
  IF k = 0 THEN <<>>
  ELSE BoolIndexUpTo(rows, mask, k - 1) \o (IF mask[k] THEN <<rows[k]>> ELSE <<>>)

BoolIndex(rows, mask) == BoolIndexUpTo(rows, mask, Len(rows))

\* pd.read_csv: a cell of a column the file does not have is absent, which
\* makes rows that differ only there equal.
read_csv(f) ==
  [columns |-> f.header,
   rows    |-> [i \in 1..Len(f.rows) |->
                  [c \in ColSet |->
                     IF \E h \in f.header : h.name = c THEN f.rows[i][c]
                     ELSE IF c \in TextCols THEN "" ELSE NaN]]]

\* df.drop_duplicates(): keep the first occurrence of every row.
drop_duplicates(rows) ==
  BoolIndex(rows, [i \in 1..Len(rows) |-> \A j \in 1..(i - 1) : rows[j] # rows[i]])

\* df.dropna(subset=[...]): drop the rows with a missing cell in the subset.
dropna(rows, subset) ==
  BoolIndex(rows, [i \in 1..Len(rows) |-> \A c \in subset : rows[i][c] # NaN])

\* df.columns.str.strip()
strip(columns) == {Hdr(h.name) : h \in columns}

\* load_data, lines 24-35.  raised is the exception that leaves the function.
load_data(f) ==
  IF ~f.readable
  THEN [df |-> EmptyDataFrame, msgs |-> {"Error loading data"}, raised |-> "none"]
  ELSE LET df == read_csv(f)
           d1 == drop_duplicates(df.rows)
       IN  IF ~(HasCol(df, "lat") /\ HasCol(df, "lng"))
           THEN [df |-> EmptyDataFrame, msgs |-> {}, raised |-> "KeyError"]
           ELSE [df     |-> [columns |-> strip(df.columns),
                             rows    |-> dropna(d1, {"lat", "lng"})],
                 msgs   |-> {},
                 raised |-> "none"]

\* st.cache_data, line 22: is there a stored result for this argument?
cache_hit(c, filepath) == c[filepath].hit

NoEntry == [hit |-> FALSE, df |-> EmptyDataFrame, msgs |-> {}]

\* Variant of missing_cols: the membership test without its "not".
missing_cols_inverted(df) ==
  BoolIndex(required_cols, [i \in 1..Len(required_cols) |-> HasCol(df, required_cols[i])])

\* missing, line 42
missing_cols(df) ==
  BoolIndex(required_cols, [i \in 1..Len(required_cols) |-> ~HasCol(df, required_cols[i])])

\* Series.min() / Series.max(): missing values are skipped; NaN if none is left.
Present(rows, col) == {rows[i][col] : i \in 1..Len(rows)} \ {NaN}

col_min(rows, col) ==
  LET S == Present(rows, col) IN
  IF S = {} THEN NaN ELSE CHOOSE m \in S : \A x \in S : m <= x

col_max(rows, col) ==
  LET S == Present(rows, col) IN
  IF S = {} THEN NaN ELSE CHOOSE m \in S : \A x \in S : m >= x

RECURSIVE SumUpTo(_, _, _)
SumUpTo(rows, col, k) ==
  IF k = 0 THEN 0
  ELSE SumUpTo(rows, col, k - 1) + (IF rows[k][col] = NaN THEN 0 ELSE rows[k][col])

\* Series.mean(): the sum over the count of the values present; NaN (den = 0)
\* if there is none.
col_mean(rows, col) ==
  [num |-> SumUpTo(rows, col, Len(rows)),
   den |-> Cardinality({i \in 1..Len(rows) : rows[i][col] # NaN})]

\* Series.unique(), as a set
unique(rows, col) == {rows[i][col] : i \in 1..Len(rows)}

\* Series.isin(values)
isin(rows, col, values) == [i \in 1..Len(rows) |-> rows[i][col] \in values]

\* Comparisons of a Series with a scalar: a missing value compares false.
ge(v, x) == v # NaN /\ v >= x
le(v, x) == v # NaN /\ v <= x

\* Variant of filter_data: the upper end of the range is exclusive.
filter_data_strict(df, pollutant, low, high) ==
  [columns |-> df.columns,
   rows    |-> BoolIndex(df.rows,
                 [i \in 1..Len(df.rows) |->
                    ge(df.rows[i][pollutant], low) /\ le(df.rows[i][pollutant], high - 1)])]

\* filter_data, lines 85-86
filter_data(df, pollutant, low, high) ==
  [columns |-> df.columns,
   rows    |-> BoolIndex(df.rows,
                 [i \in 1..Len(df.rows) |->
                    ge(df.rows[i][pollutant], low) /\ le(df.rows[i][pollutant], high)])]

\* filtered[filtered['Country'].isin(countries)], line 90
filter_countries(df, sel) ==
  [columns |-> df.columns, rows |-> BoolIndex(df.rows, isin(df.rows, "Country", sel))]

\* get_stats, lines 97-98
get_stats(df, col) ==
  [mean |-> col_mean(df.rows, col), min |-> col_min(df.rows, col), max |-> col_max(df.rows, col)]

\* Variant of InsertDesc: a row goes in front of the rows of equal value.
RECURSIVE InsertDescBeforeTies(_, _, _)
InsertDescBeforeTies(sorted, r, col) ==
  IF sorted = <<>> THEN <<r>>
  ELSE IF Head(sorted)[col] > r[col]
       THEN <<Head(sorted)>> \o InsertDescBeforeTies(Tail(sorted), r, col)
       ELSE <<r>> \o sorted

\* DataFrame.nlargest(n, col), keep='first': the rows in descending order of
\* col, rows of equal value in their original order, cut to n rows.
RECURSIVE InsertDesc(_, _, _)
InsertDesc(sorted, r, col) ==
  IF sorted = <<>> THEN <<r>>
  ELSE IF Head(sorted)[col] >= r[col]
       THEN <<Head(sorted)>> \o InsertDesc(Tail(sorted), r, col)
       ELSE <<r>> \o sorted

RECURSIVE SortDescUpTo(_, _, _)
SortDescUpTo(rows, col, k) ==
  IF k = 0 THEN <<>> ELSE InsertDesc(SortDescUpTo(rows, col, k - 1), rows[k], col)

nlargest(n, rows, col) ==
  LET present == BoolIndex(rows, [i \in 1..Len(rows) |-> rows[i][col] # NaN])
      sorted  == SortDescUpTo(present, col, Len(present))
  IN  SubSeq(sorted, 1, IF Len(sorted) < n THEN Len(sorted) ELSE n)

NoStats == [mean |-> [num |-> 0, den |-> 0], min |-> NaN, max |-> NaN]

\* pivot_table(index='Country', values=col, aggfunc='mean'), line 122: one
\* entry per country present in the view (a missing country forms no group).
pivot_table(df, col) ==
  [k \in unique(df.rows, "Country") \ {""} |->
     col_mean(BoolIndex(df.rows, isin(df.rows, "Country", {k})), col)]

\* Series.map(category_map), line 130: a text outside the table maps to NaN.
encode(cat) == IF cat \in DOMAIN category_map THEN category_map[cat] ELSE NaN

add_level(df) ==
  [columns |-> df.columns \cup {Hdr("AQI_Level")},
   rows    |-> [i \in 1..Len(df.rows) |->
                  [c \in ColSet \cup {"AQI_Level"} |->
                     IF c = "AQI_Level" THEN encode(df.rows[i]["AQI Category"])
                     ELSE df.rows[i][c]]]]

\* The loop of lines 135-138: the number of rows of every category met.
count_categories(df) ==
  [k \in unique(df.rows, "AQI Category") |->
     Cardinality({i \in 1..Len(df.rows) : df.rows[i]["AQI Category"] = k})]

\* Variant of city_category_filter: the category test is applied even when
\* nothing is selected.
city_category_filter_unguarded(df, cities, categories) ==
  LET byCity == IF cities # {}
                THEN BoolIndex(df.rows, isin(df.rows, "City", cities))
                ELSE df.rows
  IN  [columns |-> df.columns,
       rows    |-> BoolIndex(byCity, isin(byCity, "AQI Category", categories))]

\* Lines 150-156: the city and category selections applied to the dataset.
city_category_filter(df, cities, categories) ==
  LET byCity == IF cities # {}
                THEN BoolIndex(df.rows, isin(df.rows, "City", cities))
                ELSE df.rows
      byCat  == IF categories # {}
                THEN BoolIndex(byCity, isin(byCity, "AQI Category", categories))
                ELSE byCity
  IN  [columns |-> df.columns, rows |-> byCat]

\* DataFrame.to_csv(index=False), line 176: a header line and one line per
\* row, each line the sequence of its fields; a missing value is an empty
\* field.
cell_text(c, v) == IF c \in TextCols THEN v ELSE IF v = NaN THEN "" ELSE ToString(v)

to_csv(df) ==
  LET cols == BoolIndex(ColOrder, [i \in 1..Len(ColOrder) |-> HasCol(df, ColOrder[i])])
  IN  <<cols>> \o
      [i \in 1..Len(df.rows) |-> [j \in 1..Len(cols) |-> cell_text(cols[j], df.rows[i][cols[j]])]]

\* ------------------------------------------------------------------ state
VARIABLES
  cache,               \* st.cache_data store of load_data, per file path
  parses,              \* number of times pd.read_csv ran, per file path
  data,                \* the module-level dataset
  errors,              \* the st.error messages shown in this run
  missing,             \* line 42
  pc,                  \* the statement about to run
  exc,                 \* the exception that ended the run, or "none"
  pollutant_col, min_val, max_val, countries,
  filtered, stats, top10,
  pivot, df_copy, cat_counts,
  selected_cities, selected_categories, filtered_data, export

loadVars   == <<cache, parses>>
widgetVars == <<pollutant_col, min_val, max_val, countries>>
viewVars   == <<filtered, stats, top10>>
tailVars   == <<pivot, df_copy, cat_counts, selected_cities, selected_categories,
                filtered_data, export>>
vars == <<cache, parses, data, errors, missing, pc, exc, pollutant_col, min_val,
          max_val, countries, filtered, stats, top10, pivot, df_copy, cat_counts,
          selected_cities, selected_categories, filtered_data, export>>

FilePath == "air_quality_index.csv"

\* The values a fresh script run starts from.
FreshRun ==
  /\ data = EmptyDataFrame /\ errors = {} /\ missing = <<>>
  /\ exc = "none"
  /\ pollutant_col = "" /\ min_val = NaN /\ max_val = NaN /\ countries = {}
  /\ filtered = EmptyDataFrame /\ stats = NoStats /\ top10 = EmptyDataFrame
  /\ pivot = <<>> /\ df_copy = EmptyDataFrame /\ cat_counts = <<>>
  /\ selected_cities = {} /\ selected_categories = {}
  /\ filtered_data = EmptyDataFrame /\ export = <<>>

Init ==
  /\ cache = [p \in Paths |-> NoEntry]
  /\ parses = [p \in Paths |-> 0]
  /\ pc = "load"
  /\ FreshRun

\* ---------------------------------------------------------- one script run
\* Line 38: data = load_data('air_quality_index.csv') behind st.cache_data.
\* A stored result is returned, and its messages replayed, without running
\* the function; otherwise the function runs on the file as it is now, and
\* its result is stored unless it raised.
RunLoad ==
  /\ pc = "load"
  /\ IF cache_hit(cache, FilePath)
     THEN /\ data' = cache[FilePath].df
          /\ errors' = cache[FilePath].msgs
          /\ pc' = "validate"
          /\ UNCHANGED <<cache, parses, exc>>
     ELSE \E f \in Files :
            LET r == load_data(f) IN
            /\ parses' = [parses EXCEPT ![FilePath] = IF @ < MaxParses THEN @ + 1 ELSE @]
            /\ IF r.raised # "none"
               THEN /\ pc' = "raised" /\ exc' = r.raised
                    /\ UNCHANGED <<cache, data, errors>>
               ELSE /\ cache' = [cache EXCEPT ![FilePath] =
                                   [hit |-> TRUE, df |-> r.df, msgs |-> r.msgs]]
                    /\ data' = r.df
                    /\ errors' = r.msgs
                    /\ pc' = "validate"
                    /\ UNCHANGED exc
  /\ UNCHANGED <<missing, widgetVars, viewVars, tailVars>>

\* Lines 41-45
Validate ==
  /\ pc = "validate"
  /\ missing' = missing_cols(data)
  /\ IF missing' # <<>>
     THEN errors' = errors \cup {"Missing expected columns"} /\ pc' = "stopped"
     ELSE errors' = errors /\ pc' = "pollutant"
  /\ UNCHANGED <<loadVars, data, exc, widgetVars, viewVars, tailVars>>

\* Lines 66-67
SelectPollutant ==
  /\ pc = "pollutant"
  /\ \E label \in DOMAIN pollutant_dict : pollutant_col' = pollutant_dict[label]
  /\ pc' = "slider"
  /\ UNCHANGED <<loadVars, data, errors, missing, exc, min_val, max_val, countries,
                 viewVars, tailVars>>

\* Lines 70-75: int() of a NaN minimum raises ValueError.
SliderChoices(df, col) ==
  {<<a, b>> \in (col_min(df.rows, col)..col_max(df.rows, col)) \X
                (col_min(df.rows, col)..col_max(df.rows, col)) : a <= b}

Slider ==
  /\ pc = "slider"
  /\ IF col_min(data.rows, pollutant_col) = NaN
     THEN pc' = "raised" /\ exc' = "ValueError" /\ UNCHANGED <<min_val, max_val>>
     ELSE /\ \E c \in SliderChoices(data, pollutant_col) : min_val' = c[1] /\ max_val' = c[2]
          /\ pc' = "countries" /\ UNCHANGED exc
  /\ UNCHANGED <<loadVars, data, errors, missing, pollutant_col, countries, viewVars, tailVars>>

\* Lines 78-82: data['Country'] raises KeyError without that column.
CountryChoices(df) == SUBSET unique(df.rows, "Country")

SelectCountries ==
  /\ pc = "countries"
  /\ IF ~HasCol(data, "Country")
     THEN pc' = "raised" /\ exc' = "KeyError" /\ UNCHANGED countries
     ELSE /\ \E sel \in CountryChoices(data) : countries' = sel
          /\ pc' = "filter_range" /\ UNCHANGED exc
  /\ UNCHANGED <<loadVars, data, errors, missing, pollutant_col, min_val, max_val,
                 viewVars, tailVars>>

\* Line 89
FilterRange ==
  /\ pc = "filter_range"
  /\ filtered' = filter_data(data, pollutant_col, min_val, max_val)
  /\ pc' = "filter_countries"
  /\ UNCHANGED <<loadVars, data, errors, missing, exc, widgetVars, stats, top10, tailVars>>

\* Line 90
FilterCountries ==
  /\ pc = "filter_countries"
  /\ filtered' = filter_countries(filtered, countries)
  /\ pc' = "stats"
  /\ UNCHANGED <<loadVars, data, errors, missing, exc, widgetVars, stats, top10, tailVars>>

\* Lines 100-103
Stats ==
  /\ pc = "stats"
  /\ stats' = get_stats(filtered, pollutant_col)
  /\ pc' = "top10"
  /\ UNCHANGED <<loadVars, data, errors, missing, exc, widgetVars, filtered, top10, tailVars>>

\* Line 106
Top10 ==
  /\ pc = "top10"
  /\ top10' = [columns |-> filtered.columns,
               rows    |-> nlargest(TopN, filtered.rows, pollutant_col)]
  /\ pc' = "plot"
  /\ UNCHANGED <<loadVars, data, errors, missing, exc, widgetVars, filtered, stats, tailVars>>

\* Line 107: plt is bound by no import (lines 11-15), so the name lookup
\* raises NameError and the run ends here.
Plot ==
  /\ pc = "plot"
  /\ pc' = "raised" /\ exc' = "NameError"
  /\ UNCHANGED <<loadVars, data, errors, missing, widgetVars, viewVars, tailVars>>

\* A user interaction starts the script again; only the cache survives.
Rerun ==
  /\ pc \in {"stopped", "raised"}
  /\ pc' = "load"
  /\ data' = EmptyDataFrame /\ errors' = {} /\ missing' = <<>>
  /\ exc' = "none"
  /\ pollutant_col' = "" /\ min_val' = NaN /\ max_val' = NaN /\ countries' = {}
  /\ filtered' = EmptyDataFrame /\ stats' = NoStats /\ top10' = EmptyDataFrame
  /\ pivot' = <<>> /\ df_copy' = EmptyDataFrame /\ cat_counts' = <<>>
  /\ selected_cities' = {} /\ selected_categories' = {}
  /\ filtered_data' = EmptyDataFrame /\ export' = <<>>
  /\ UNCHANGED loadVars

Next ==
  \/ RunLoad \/ Validate \/ SelectPollutant \/ Slider \/ SelectCountries
  \/ FilterRange \/ FilterCountries \/ Stats \/ Top10 \/ Plot \/ Rerun

Spec == Init /\ [][Next]_vars

\* ------------------------------------------- lines 122-179 as a continuation
\* The datasets with which a run gets past line 106.
Loaded == {load_data(f) : f \in Files}

TailFrames ==
  {r.df : r \in {l \in Loaded : l.raised = "none" /\ missing_cols(l.df) = <<>>
                               /\ HasCol(l.df, "Country")}}

TailInit ==
  /\ data \in TailFrames
  /\ cache = [p \in Paths |-> [hit |-> TRUE, df |-> data, msgs |-> {}]]
  /\ parses = [p \in Paths |-> 1]
  /\ errors = {} /\ missing = <<>> /\ exc = "none"
  /\ pollutant_col \in Range(required_cols)
  /\ col_min(data.rows, pollutant_col) # NaN
  /\ \E c \in SliderChoices(data, pollutant_col) : min_val = c[1] /\ max_val = c[2]
  /\ countries \in CountryChoices(data)
  /\ filtered = filter_countries(filter_data(data, pollutant_col, min_val, max_val), countries)
  /\ stats = get_stats(filtered, pollutant_col)
  /\ top10 = [columns |-> filtered.columns,
              rows    |-> nlargest(TopN, filtered.rows, pollutant_col)]
  /\ pivot = <<>> /\ df_copy = EmptyDataFrame /\ cat_counts = <<>>
  /\ selected_cities = {} /\ selected_categories = {}
  /\ filtered_data = EmptyDataFrame /\ export = <<>>
  /\ pc = "pivot"

\* Lines 122-124
Pivot ==
  /\ pc = "pivot"
  /\ pivot' = pivot_table(filtered, pollutant_col)
  /\ pc' = "encode"
  /\ UNCHANGED <<loadVars, data, errors, missing, exc, widgetVars, viewVars, df_copy,
                 cat_counts, selected_cities, selected_categories, filtered_data, export>>

\* Lines 127-132: the lookups of 'AQI Category' (line 130) and 'City'
\* (line 132) raise KeyError without those columns.
Encode ==
  /\ pc = "encode"
  /\ IF HasCol(filtered, "AQI Category") /\ HasCol(filtered, "City")
     THEN df_copy' = add_level(filtered) /\ pc' = "counts" /\ UNCHANGED exc
     ELSE pc' = "raised" /\ exc' = "KeyError" /\ UNCHANGED df_copy
  /\ UNCHANGED <<loadVars, data, errors, missing, widgetVars, viewVars, pivot,
                 cat_counts, selected_cities, selected_categories, filtered_data, export>>

\* Lines 135-139
CatCounts ==
  /\ pc = "counts"
  /\ cat_counts' = count_categories(filtered)
  /\ pc' = "city_category"
  /\ UNCHANGED <<loadVars, data, errors, missing, exc, widgetVars, viewVars, pivot,
                 df_copy, selected_cities, selected_categories, filtered_data, export>>

\* Lines 142-156: both multiselects offer the values present in the dataset,
\* missing values left out.
city_options(df)   == unique(df.rows, "City") \ {""}
aqi_categories(df) == unique(df.rows, "AQI Category") \ {""}

CityCategory ==
  /\ pc = "city_category"
  /\ \E sc \in SUBSET city_options(data), scat \in SUBSET aqi_categories(data) :
       /\ selected_cities' = sc
       /\ selected_categories' = scat
       /\ filtered_data' = city_category_filter(data, sc, scat)
  /\ pc' = "export"
  /\ UNCHANGED <<loadVars, data, errors, missing, exc, widgetVars, viewVars, pivot,
                 df_copy, cat_counts, export>>

\* Lines 174-179
Export ==
  /\ pc = "export"
  /\ export' = to_csv(filtered_data)
  /\ pc' = "done"
  /\ UNCHANGED <<loadVars, data, errors, missing, exc, widgetVars, viewVars, pivot,
                 df_copy, cat_counts, selected_cities, selected_categories, filtered_data>>

TailNext == Pivot \/ Encode \/ CatCounts \/ CityCategory \/ Export

SpecTail == TailInit /\ [][TailNext]_vars

\* --------------------------------------------------- nlargest on long views
TopVals == {1, 2}

\* The k-th row of a view under construction: every row has its own city.
TopRow(k, v) == MkRow(ToString(k), "France", 48, v, v, "Good")

TopInit ==
  /\ cache = [p \in Paths |-> NoEntry]
  /\ parses = [p \in Paths |-> 0]
  /\ data = EmptyDataFrame /\ errors = {} /\ missing = <<>> /\ exc = "none"
  /\ pollutant_col \in Range(required_cols)
  /\ min_val = NaN /\ max_val = NaN /\ countries = {}
  /\ filtered = [columns |-> FullHeader, rows |-> <<>>]
  /\ stats = NoStats /\ top10 = EmptyDataFrame
  /\ pivot = <<>> /\ df_copy = EmptyDataFrame /\ cat_counts = <<>>
  /\ selected_cities = {} /\ selected_categories = {}
  /\ filtered_data = EmptyDataFrame /\ export = <<>>
  /\ pc = "view"

\* One more row enters the view.
GrowView ==
  /\ pc = "view"
  /\ Len(filtered.rows) < MaxViewLen
  /\ \E v \in TopVals :
       filtered' = [filtered EXCEPT !.rows = Append(@, TopRow(Len(@) + 1, v))]
  /\ UNCHANGED <<loadVars, data, errors, missing, pc, exc, widgetVars, stats, top10, tailVars>>

\* Line 106 on that view
TopOfView ==
  /\ pc = "view"
  /\ top10' = [columns |-> filtered.columns,
               rows    |-> nlargest(TopN, filtered.rows, pollutant_col)]
  /\ pc' = "top_done"
  /\ UNCHANGED <<loadVars, data, errors, missing, exc, widgetVars, filtered, stats, tailVars>>

TopNext == GrowView \/ TopOfView

SpecTop == TopInit /\ [][TopNext]_vars

\* ================================================================= claims
InRange(r) ==
  r[pollutant_col] # NaN /\ min_val <= r[pollutant_col] /\ r[pollutant_col] <= max_val

\* C1: right after line 89, the view holds exactly the rows of the dataset
\* whose pollutant value lies in [min_val, max_val], both ends included: no
\* row outside the range is in it and no row inside the range is missing.
C1_RangeFilterExact ==
  pc = "filter_countries" =>
    /\ \A i \in 1..Len(filtered.rows) : InRange(filtered.rows[i])
    /\ \A i \in 1..Len(data.rows) :
         InRange(data.rows[i]) => data.rows[i] \in Range(filtered.rows)
    /\ Range(filtered.rows) \subseteq Range(data.rows)
    /\ Len(filtered.rows) = Cardinality({i \in 1..Len(data.rows) : InRange(data.rows[i])})

\* A range that keeps a row at each of its two different ends and drops another.
C1_Witness ==
  /\ pc = "filter_countries"
  /\ min_val < max_val
  /\ \E i \in 1..Len(filtered.rows) : filtered.rows[i][pollutant_col] = min_val
  /\ \E i \in 1..Len(filtered.rows) : filtered.rows[i][pollutant_col] = max_val
  /\ Len(filtered.rows) < Len(data.rows)

\* C2: with no country selected, the view after line 90 holds every row that
\* satisfies the range predicate.
C2_EmptyCountriesPassThrough ==
  (pc = "stats" /\ countries = {}) =>
    filtered = filter_data(data, pollutant_col, min_val, max_val)

\* C3: a loaded dataset that lacks one of the ten columns of the input format
\* stops the run at validation with a report of missing columns, before any
\* later statement runs.
C3_MissingColumnHalts ==
  (cache[FilePath].hit /\ pc \notin {"load", "validate"}
     /\ \E c \in ColSet : ~HasCol(data, c)) =>
    /\ pc = "stopped"
    /\ missing # <<>>
    /\ "Missing expected columns" \in errors

LoadFailed == "Error loading data" \in errors

\* C4, as stated: after a failed load the dataset is empty, nothing was
\* raised and the run is not halted.
C4_LoadFailureNotHalting ==
  LoadFailed => (data = EmptyDataFrame /\ exc = "none" /\ pc # "stopped")

\* C4, amended: a failed load raises nothing and leaves an empty dataset; the
\* run then goes to validation only, where it is stopped with all five
\* required columns reported missing, and no later statement runs.
C4_LoadFailureStopsAtValidation ==
  LoadFailed =>
    /\ data = EmptyDataFrame
    /\ exc = "none"
    /\ pc \in {"validate", "stopped"}
    /\ pc = "stopped" => (missing = required_cols /\ "Missing expected columns" \in errors)
    /\ pollutant_col = "" /\ filtered = EmptyDataFrame /\ top10 = EmptyDataFrame

\* A run stopped by validation after the load failed.
C4_Witness == LoadFailed /\ pc = "stopped" /\ Len(missing) = 5

ViewIsEmpty ==
  /\ pc \in {"stats", "top10", "plot", "raised"}
  /\ filtered.columns # {}
  /\ filtered.rows = <<>>

\* C6: with an empty view nothing raises, the summary is the NaN triple and
\* the top-10 is empty.
C6_EmptyViewNeverRaises ==
  ViewIsEmpty =>
    /\ exc = "none"
    /\ pc \in {"top10", "plot"} => stats = NoStats
    /\ pc = "plot" => top10.rows = <<>>

FullCategoryView == city_category_filter(data, selected_cities, aqi_categories(data))

PosInView(r) == CHOOSE i \in 1..Len(filtered.rows) : filtered.rows[i] = r

\* C8: the top-10 is in descending order of the pollutant column, holds only
\* rows of the view, each once, has min(10, length of the view) rows, and
\* rows of equal value keep their order in the view.
C8_TopTenSortedStable ==
  pc = "top_done" =>
    LET t == top10.rows IN
    /\ \A i \in 1..(Len(t) - 1) : t[i][pollutant_col] >= t[i + 1][pollutant_col]
    /\ Range(t) \subseteq Range(filtered.rows)
    /\ Cardinality(Range(t)) = Len(t)
    /\ Len(t) = (IF Len(filtered.rows) < TopN THEN Len(filtered.rows) ELSE TopN)
    /\ \A i, j \in 1..Len(t) :
         (i < j /\ t[i][pollutant_col] = t[j][pollutant_col]) => PosInView(t[i]) < PosInView(t[j])

\* A view of more than ten rows whose top-10 holds both values, with a tie.
C8_Witness ==
  /\ pc = "top_done"
  /\ Len(filtered.rows) > TopN
  /\ Len(top10.rows) = TopN
  /\ top10.rows[1][pollutant_col] # top10.rows[TopN][pollutant_col]
  /\ top10.rows[1][pollutant_col] = top10.rows[2][pollutant_col]
  /\ filtered.rows[1][pollutant_col] < filtered.rows[2][pollutant_col]

\* C9: a run whose load and validation succeeded, on a dataset with all ten
\* columns and at least one value of the chosen pollutant, does not end in
\* an exception before the export.
C9_ValidatedRunCompletes ==
  (/\ cache[FilePath].hit /\ errors = {} /\ pollutant_col # ""
   /\ data.columns = FullHeader
   /\ col_min(data.rows, pollutant_col) # NaN) =>
    pc # "raised"

\* C10: the file is parsed at most once per path, and once the cache holds a
\* dataset for the path every run works on that dataset.
C10_ParsedAtMostOnce ==
  /\ \A p \in Paths : parses[p] <= 1
  /\ (cache[FilePath].hit /\ pc \notin {"load", "raised", "stopped"}) => data = cache[FilePath].df
  /\ (cache[FilePath].hit /\ pc \in {"raised", "stopped"} /\ exc # "KeyError")
       => data = cache[FilePath].df

====
